---------------------------- MODULE Spec2Model ----------------------------
(***************************************************************************)
(* Model of the forecasting / backtesting engine of Stock_Forcast:         *)
(*   backend/backtesting.py  PredictionBacktester                          *)
(*   backend/prediction.py   get_historical_accuracy,                      *)
(*                           generate_price_prediction                     *)
(*   backend/main.py         predict_price (GET /predict)                  *)
(*                                                                         *)
(* Numbers.  The program computes in IEEE doubles.  Here a close is a      *)
(* positive integer and every derived real is a fixed-point integer with   *)
(* S units per 1.0, rounded down.  A NaN cell of a pandas column is the    *)
(* empty sequence << >>, a defined cell with value v is <<v>>.             *)
(*                                                                         *)
(* Time.  A timestamp counts ticks, TicksPerDay ticks a day; the rows of a *)
(* daily price table are stamped at midnight of trading days (five         *)
(* trading days, then a two-day gap).                                      *)
(*                                                                         *)
(* Tables.  Price tables carry every OHLCV column and no missing value;    *)
(* only the date index and the close column are modelled.                  *)
(***************************************************************************)
EXTENDS Integers, Sequences, FiniteSets, TLC

VARIABLES
    hist,    \* the caller's price table (load_prices' result): rows [ts, close]
    pc,      \* "loaded": no backtester yet; "idle": a backtester holds data;
             \* "returned": a call on it has returned
    hist_index,  \* the kind of index the caller's price table has
    data,    \* PredictionBacktester.data: the indicator table
    last     \* the outcome of the last call made on the backtester / forecast

vars == <<hist, hist_index, pc, data, last>>

-----------------------------------------------------------------------------
(* Bounds of the model *)

MaxLen == 120           \* longest price table
MaxHorizon == 3         \* largest horizon (days) a backtest is asked with
MaxAhead == 12          \* latest target date, in days after today
MaxRequestAhead == 1    \* latest target date of a /predict request, in days

(* Program constants *)

MAWindow == 50          \* rolling(window=50)
MomentumPeriods == 20   \* pct_change(periods=20)
VolWindow == 20         \* rolling(window=20).std()
EvalWindow == 60        \* min_required_days = 60 + days_ahead
PredWindow == 50        \* window_size = min(50, len - 10)
WindowMargin == 10
ProbCap == 95           \* min(95, ...)

S == 10 ^ 3             \* fixed-point units per 1.0
Z80 == 1280             \* 1.28 in S units
Z95 == 1960             \* 1.96 in S units
MeanRevRate == 100      \* 0.1 in S units
MomentumBase == 20      \* sqrt(horizon / 20)
TicksPerDay == 2        \* clock resolution: midnight and noon

-----------------------------------------------------------------------------
(* Fixed-point arithmetic *)

NaN == << >>
Cell(v) == <<v>>
IsNaN(c) == c = NaN
Val(c) == c[1]
\* an infinite float: its sign over zero
Inf(sign) == <<sign, 0>>
IsInf(c) == Len(c) = 2

Abs(x) == IF x < 0 THEN -x ELSE x
Min(a, b) == IF a < b THEN a ELSE b
Max(a, b) == IF a > b THEN a ELSE b
Sign(x) == IF x > 0 THEN 1 ELSE IF x < 0 THEN -1 ELSE 0

\* floor(a * b / d) for d > 0, split so the intermediate products stay small
MulDiv(a, b, d) == (a \div d) * b + ((a % d) * b) \div d

\* a * b of two fixed-point numbers
FMul(a, b) == MulDiv(a, b, S)

\* a / b of two numbers on the same scale, as a fixed-point number
FDiv(a, b) == MulDiv(a, S, b)

RECURSIVE IsqrtIter(_, _, _)
IsqrtIter(n, lo, hi) ==
    IF lo >= hi THEN lo
    ELSE LET mid == (lo + hi + 1) \div 2
         IN  IF mid <= n \div mid THEN IsqrtIter(n, mid, hi)
             ELSE IsqrtIter(n, lo, mid - 1)

\* floor(sqrt(n)), n >= 0
Isqrt(n) == IF n <= 0 THEN 0 ELSE IsqrtIter(n, 1, Min(n, 46340))

\* sqrt of a fixed-point number, as a fixed-point number
FSqrt(x) == Isqrt(x * S)

\* the sums split their range in halves, so that the recursion stays shallow
RECURSIVE SumSeq(_, _, _)
SumSeq(s, a, b) ==
    IF a > b THEN 0
    ELSE IF a = b THEN s[a]
    ELSE LET m == (a + b) \div 2 IN SumSeq(s, a, m) + SumSeq(s, m + 1, b)

RECURSIVE SumSqDev(_, _, _, _)
SumSqDev(s, a, b, mean) ==
    IF a > b THEN 0
    ELSE IF a = b THEN (s[a] - mean) * (s[a] - mean)
    ELSE LET m == (a + b) \div 2
         IN  SumSqDev(s, a, m, mean) + SumSqDev(s, m + 1, b, mean)

RECURSIVE MaxSeq(_, _, _)
MaxSeq(s, a, b) ==
    IF a > b THEN 0
    ELSE IF a = b THEN s[a]
    ELSE LET m == (a + b) \div 2 IN Max(MaxSeq(s, a, m), MaxSeq(s, m + 1, b))

\* numpy / pandas sample standard deviation (ddof = 1) of s[a..b]: NaN below 2 values
Std(s, a, b) ==
    LET n == b - a + 1
    IN  IF n < 2 THEN NaN
        ELSE LET mean == SumSeq(s, a, b) \div n
             IN  Cell(Isqrt(SumSqDev(s, a, b, mean) \div (n - 1)))

-----------------------------------------------------------------------------
(* The price tables the caller supplies *)

Shapes == {"flat", "rise", "mild", "wild", "step"}

BasePrice == 100        \* close of the flat series, low close of the zigzags
RiseStart == 500        \* first close of the rising series
StepAt == MaxLen - MomentumPeriods   \* first row of the step series at its high close

\* 1.01 ^ n in units of 1 / GrowthScale, by repeated squaring (rounded down)
GrowthScale == 10 ^ 4
RECURSIVE Growth(_)
Growth(n) ==
    IF n = 0 THEN GrowthScale
    ELSE LET h == Growth(n \div 2)
             sq == (h * h) \div GrowthScale
         IN  IF n % 2 = 0 THEN sq ELSE (sq * 101) \div 100

\* the rising series: each close is 1% above the one before
RiseClose(t) == (RiseStart * Growth(t - 1)) \div GrowthScale

CloseOf(shape, t) ==
    CASE shape = "flat" -> BasePrice
      [] shape = "rise" -> RiseClose(t)
      [] shape = "mild" -> IF t % 2 = 1 THEN BasePrice ELSE BasePrice + BasePrice \div 10
      [] shape = "wild" -> IF t % 2 = 1 THEN BasePrice ELSE 4 * BasePrice
      [] shape = "step" -> IF t < StepAt THEN BasePrice \div 10 ELSE BasePrice

\* midnight of the t-th trading day
TsOf(t) == (t + 2 * ((t - 1) \div 5)) * TicksPerDay

PriceTable(shape, len) == [t \in 1..len |-> [ts |-> TsOf(t), close |-> CloseOf(shape, t)]]

-----------------------------------------------------------------------------
(* PredictionBacktester.__init__ and _prepare_data *)

\* DataFrame.sort_index(): the rows in ascending order of timestamp
SortIndex(df) == SortSeq(df, LAMBDA r1, r2 : r1.ts < r2.ts)

\* PctChange without the subtraction: the ratio x / prev
PctChangeRatio(x, prev) == FDiv(x, prev)

\* Series.pct_change: x / prev - 1
PctChange(x, prev) == FDiv(x, prev) - S

\* close.pct_change(periods): NaN on the first `periods` rows
PctChangeCol(df, periods) ==
    [t \in 1..Len(df) |->
        IF t <= periods THEN NaN
        ELSE Cell(PctChange(df[t].close, df[t - periods].close))]

\* RollingMean with the window counted one row late: NaN through row `window`
RollingMeanLate(df, window) ==
    LET c == [t \in 1..Len(df) |-> df[t].close]
    IN  [t \in 1..Len(df) |->
            IF t <= window THEN NaN
            ELSE Cell(MulDiv(SumSeq(c, t - window + 1, t), S, window))]

\* close.rolling(window).mean(): NaN until the window is full
RollingMean(df, window) ==
    LET c == [t \in 1..Len(df) |-> df[t].close]
    IN  [t \in 1..Len(df) |->
            IF t < window THEN NaN
            ELSE Cell(MulDiv(SumSeq(c, t - window + 1, t), S, window))]

\* returns.rolling(window).std(): NaN until the window holds `window` defined values
RollingStd(col, window) ==
    LET v == [t \in 1..Len(col) |-> IF IsNaN(col[t]) THEN 0 ELSE Val(col[t])]
    IN  [t \in 1..Len(col) |->
            IF t < window \/ \E k \in (t - window + 1)..t : IsNaN(col[k]) THEN NaN
            ELSE Std(v, t - window + 1, t)]

RowDefined(row) ==
    /\ ~IsNaN(row.returns)
    /\ ~IsNaN(row.MA50)
    /\ ~IsNaN(row.momentum)
    /\ ~IsNaN(row.volatility)

\* DataFrame.dropna(): keep the rows without a NaN, in order
DropNa(df) == SelectSeq(df, RowDefined)

PrepareData(df) ==
    LET returns    == PctChangeCol(df, 1)
        ma50       == RollingMean(df, MAWindow)
        momentum   == PctChangeCol(df, MomentumPeriods)
        volatility == RollingStd(returns, VolWindow)
        full == [t \in 1..Len(df) |->
                    [ts |-> df[t].ts, close |-> df[t].close,
                     returns |-> returns[t], MA50 |-> ma50[t],
                     momentum |-> momentum[t], volatility |-> volatility[t]]]
    IN  DropNa(full)

\* PredictionBacktester(historical_data).data
NewBacktester(historical_data) == PrepareData(SortIndex(historical_data))

-----------------------------------------------------------------------------
(* PredictionBacktester._make_prediction *)

Raise(kind) == [err |-> kind]
Returns(v) == [err |-> "", val |-> v]
Raised(r) == r.err # ""

\* SqrtRatio without the square root: the ratio itself
SqrtRatioLinear(n, d) == MulDiv(n, S, d)

\* np.sqrt(horizon / 20) and np.sqrt(days): the square root of n / d
SqrtRatio(n, d) == FSqrt(MulDiv(n, S, d))

\* MakePrediction with the momentum read from the first row of the table
MakePredictionFirstRowMomentum(df, horizon) ==
    IF df = << >> THEN Raise("IndexError")
    ELSE
    LET row == df[Len(df)]
    IN  IF ~RowDefined(row) \/ ~RowDefined(df[1]) \/ horizon < 0 THEN Returns(NaN)
        ELSE IF Val(row.MA50) = 0
        THEN Returns(IF horizon = 0 \/ row.close = 0 THEN NaN ELSE Inf(-1))
        ELSE
        LET current_price == row.close * S
            momentum   == Val(df[1].momentum)
            current_ma == Val(row.MA50)
            volatility == Val(row.volatility)
            momentum_effect == FMul(momentum, SqrtRatio(horizon, MomentumBase))
            ma_diff == FDiv(current_price - current_ma, current_ma)
            mean_reversion == FMul(-ma_diff, MeanRevRate) * horizon
            total_effect == FMul(momentum_effect + mean_reversion, S + volatility)
            predicted_price == FMul(current_price, S + total_effect)
        IN  Returns(Cell(predicted_price))

MakePrediction(df, horizon) ==
    IF df = << >> THEN Raise("IndexError")      \* data['close'].iloc[-1]
    ELSE
    LET row == df[Len(df)]
    IN  \* np.sqrt(horizon / 20) of a negative horizon is nan, and so is the price
        IF ~RowDefined(row) \/ horizon < 0 THEN Returns(NaN)
        \* (current_price - current_ma) / current_ma with current_ma = 0 is a
        \* numpy division by zero: it raises nothing and yields inf (nan for
        \* 0 / 0), so the price is -inf, or nan when inf is multiplied by 0
        ELSE IF Val(row.MA50) = 0
        THEN Returns(IF horizon = 0 \/ row.close = 0 THEN NaN ELSE Inf(-1))
        ELSE
        LET current_price == row.close * S
            momentum   == Val(row.momentum)
            current_ma == Val(row.MA50)
            volatility == Val(row.volatility)
            momentum_effect == FMul(momentum, SqrtRatio(horizon, MomentumBase))
            ma_diff == FDiv(current_price - current_ma, current_ma)
            mean_reversion == FMul(-ma_diff, MeanRevRate) * horizon
            total_effect == FMul(momentum_effect + mean_reversion, S + volatility)
            predicted_price == FMul(current_price, S + total_effect)
        IN  Returns(Cell(predicted_price))

-----------------------------------------------------------------------------
(* PredictionBacktester.backtest_prediction *)

\* strftime('%Y-%m-%d') of a timestamp: its calendar day
DayOf(ts) == ts \div TicksPerDay

\* self.data[start_date:end_date], both dates 'YYYY-MM-DD' strings, ends included
DateSlice(df, start_day, end_day) ==
    SelectSeq(df, LAMBDA row : start_day <= DayOf(row.ts) /\ DayOf(row.ts) <= end_day)

\* AsOf without the cut: the prediction sees the whole table
AsOfWholeTable(df, ts) == df

\* self.data[:ts], a Timestamp label: every row up to and including ts
AsOf(df, ts) == SelectSeq(df, LAMBDA row : row.ts <= ts)

SumFn(f, n) == SumSeq(f, 1, n)
MaxFn(f, n) == MaxSeq(f, 1, n)

\* np.mean of a list of fixed-point values: NaN when the list is empty
Mean(f, n) == IF n = 0 THEN NaN ELSE Cell(SumFn(f, n) \div n)

\* np.sqrt(np.mean(d ** 2)), the squares taken relative to the largest |d| so that
\* they stay in range
RootMeanSquare(d, n) ==
    IF n = 0 THEN NaN
    ELSE LET m == MaxFn([i \in 1..n |-> Abs(d[i])], n)
         IN  IF m = 0 THEN Cell(0)
             ELSE LET rel == [i \in 1..n |-> FDiv(d[i], m)]
                      msq == SumFn([i \in 1..n |-> FMul(rel[i], rel[i])], n) \div n
                  IN  Cell(FMul(m, FSqrt(msq)))

\* np.mean(np.sign(actual_moves) == np.sign(pred_moves)) * 100
DirectionalAccuracy(actual_moves, pred_moves, n) ==
    IF n = 0 THEN NaN
    ELSE LET hits == Cardinality({i \in 1..n : Sign(actual_moves[i]) = Sign(pred_moves[i])})
         IN  Cell(MulDiv(hits * 100, S, n))

\* ActualMoves measured from the first row of the slice instead of day over day
ActualMovesFromStart(test_data, n) ==
    [i \in 1..n |-> (test_data[i + 1].close - test_data[1].close) * S]

\* np.diff([test_data['close'].iloc[i] for i in range(len(predictions) + 1)])
ActualMoves(test_data, n) ==
    [i \in 1..n |-> (test_data[i + 1].close - test_data[i].close) * S]

\* np.array(predictions) - test_data['close'].iloc[:-prediction_horizon]
PredMoves(predictions, test_data, n) ==
    [i \in 1..n |-> predictions[i] - test_data[i].close * S]

\* range(len(test_data) - prediction_horizon): the number of scored indices
NumPredictions(test_data, prediction_horizon) ==
    Max(0, Len(test_data) - prediction_horizon)

\* Actual taken one row after the scored one, whatever the horizon
ActualNextDay(test_data, i, prediction_horizon) == test_data[i + 1].close * S

\* actual = test_data['close'].iloc[i + prediction_horizon], i counted from 1
Actual(test_data, i, prediction_horizon) ==
    test_data[i + prediction_horizon].close * S

BacktestPrediction(df, start_day, end_day, prediction_horizon) ==
    LET test_data == DateSlice(df, start_day, end_day)
        n == NumPredictions(test_data, prediction_horizon)
        current_len == [i \in 1..n |-> Len(AsOf(df, test_data[i].ts))]
        predictions ==
            [i \in 1..n |-> Val(MakePrediction(AsOf(df, test_data[i].ts),
                                               prediction_horizon).val)]
        actuals == [i \in 1..n |-> Actual(test_data, i, prediction_horizon)]
        errors == [i \in 1..n |-> FDiv(predictions[i] - actuals[i], actuals[i])]
        mape == IF n = 0 THEN NaN
                ELSE Cell(Val(Mean([i \in 1..n |-> Abs(errors[i])], n)) * 100)
        rmse == RootMeanSquare([i \in 1..n |-> predictions[i] - actuals[i]], n)
        actual_moves == ActualMoves(test_data, n)
        pred_moves == PredMoves(predictions, test_data, n)
    IN  IF test_data = << >> THEN Raise("IndexError")   \* test_data['close'].iloc[0]
        ELSE [err |-> "",
              mape |-> mape,
              rmse |-> rmse,
              directional_accuracy |-> DirectionalAccuracy(actual_moves, pred_moves, n),
              n_predictions |-> n,
              date_range |-> <<DayOf(test_data[1].ts), DayOf(test_data[Len(test_data)].ts)>>,
              \* the locals of the call, kept for the properties
              test_data |-> [i \in 1..Len(test_data) |->
                                [ts |-> test_data[i].ts, close |-> test_data[i].close]],
              current_len |-> current_len,
              predictions |-> predictions,
              actuals |-> actuals]

-----------------------------------------------------------------------------
(* prediction.py: get_historical_accuracy and generate_price_prediction *)

\* df.iloc[-k:] as Python slices it: the last k rows for k > 0, every row for
\* k = 0, and the rows from position -k on (0-based) for k < 0
ILocTail(df, k) ==
    IF k > 0 THEN SubSeq(df, Max(1, Len(df) - k + 1), Len(df))
    ELSE SubSeq(df, 1 - k, Len(df))

GetHistoricalAccuracy(df, days_ahead) ==
    IF df = << >> THEN Raise("NoData")          \* ValueError: No historical data provided
    ELSE
    LET min_required_days == EvalWindow + days_ahead
    IN  IF Len(df) < min_required_days
        THEN Raise("InsufficientData")  \* ValueError: Insufficient historical data
        ELSE
        LET backtester == NewBacktester(df)
            end_date   == df[Len(df)].ts
            start_date == df[Len(df) - min_required_days + 1].ts
        IN  BacktestPrediction(backtester, DayOf(start_date), DayOf(end_date), days_ahead)

\* (target_date - current_date).days: whole days, rounded down
DaysBetween(current_date, target_date) == (target_date - current_date) \div TicksPerDay

GeneratePricePrediction(historical_data, current_date, target_date, current_price) ==
    LET days_until_target == DaysBetween(current_date, target_date)
    IN  IF days_until_target <= 0
        THEN Raise("TargetDate")        \* ValueError: Target date must be in the future
        ELSE
        LET window_size == Min(PredWindow, Len(historical_data) - WindowMargin)
            prediction_window == ILocTail(historical_data, window_size)
            prediction == MakePrediction(prediction_window, days_until_target)
        IN  IF Raised(prediction) THEN prediction
            ELSE
            LET returns == [t \in 1..Len(prediction_window) |->
                               Val(prediction_window[t].returns)]
                std == Std(returns, 1, Len(prediction_window))
                accuracy_metrics == GetHistoricalAccuracy(historical_data, days_until_target)
            IN  IF Raised(accuracy_metrics) THEN Raise(accuracy_metrics.err)
                ELSE
                LET median == Val(prediction.val)
                    volatility == FMul(Val(std), SqrtRatio(days_until_target, 1))
                    confidence_80 == FMul(volatility, Z80)
                    confidence_95 == FMul(volatility, Z95)
                IN  [err |-> "",
                     current_price |-> current_price,
                     target_date |-> DayOf(target_date),
                     median_prediction |-> median,
                     ci80 |-> <<FMul(median, S - confidence_80),
                                FMul(median, S + confidence_80)>>,
                     ci95 |-> <<FMul(median, S - confidence_95),
                                FMul(median, S + confidence_95)>>,
                     probability_within_5_percent |->
                         Min(ProbCap * S, 100 * (S - volatility)),
                     historical_accuracy |-> accuracy_metrics,
                     \* the locals of the call, kept for the properties
                     days_until_target |-> days_until_target,
                     window_len |-> Len(prediction_window),
                     volatility |-> volatility]

-----------------------------------------------------------------------------
(* main.py: the /predict endpoint *)

\* the exceptions that are ValueErrors: the `except ValueError` clause takes them
ValueErrors == {"TargetDate", "InsufficientData", "NoData"}

\* the body of predict_price's try block
PredictPriceBody(historical_data, now, target_dt) ==
    IF target_dt <= now
    THEN Raise("HTTPException400")      \* raise HTTPException(400, "Target date must ...")
    ELSE IF historical_data = << >>
    THEN Raise("HTTPException400")      \* raise HTTPException(400, "No historical data ...")
    ELSE
    LET current_price  == historical_data[Len(historical_data)].close * S
        processed_data == NewBacktester(historical_data)
    IN  GeneratePricePrediction(processed_data, now, target_dt, current_price)

\* predict_price: the try block and its two except clauses.  HTTPException is
\* not a ValueError, so `except Exception` takes it like any other error.
PredictPrice(historical_data, now, target_dt) ==
    LET r == PredictPriceBody(historical_data, now, target_dt)
    IN  IF ~Raised(r) THEN [status |-> 200, raised |-> ""]
        ELSE IF r.err \in ValueErrors THEN [status |-> 400, raised |-> r.err]
        ELSE [status |-> 500, raised |-> r.err]

-----------------------------------------------------------------------------
(* The state machine *)

NoCall == [op |-> "none"]

\* the index of the caller's price table: a DatetimeIndex, as load_prices builds
\* it, or an Index of date labels ('YYYY-MM-DD' strings)
IndexKinds(shape) ==
    IF shape = "mild" THEN {"DatetimeIndex", "Index"} ELSE {"DatetimeIndex"}

\* the calendar days a backtest window is asked with
LastDay == DayOf(TsOf(MaxLen))
StartDays == {0, DayOf(TsOf(MAWindow + 2)), DayOf(TsOf(MaxLen - 2)), LastDay + 3}
EndDays == {DayOf(TsOf(MaxLen - EvalWindow)), LastDay + 3}

\* datetime.now(): midnight or noon of the day after the longest table ends
Today == LastDay + 1
Clock == {Today * TicksPerDay + k : k \in 0..(TicksPerDay - 1)}
\* the target dates asked for: from yesterday noon to MaxAhead days ahead
TargetDates == {Today * TicksPerDay + k : k \in (-1)..(MaxAhead * TicksPerDay)}
\* datetime.strptime(target_date, "%Y-%m-%d"): midnight of the day asked for
RequestDates == {(Today + k) * TicksPerDay : k \in 0..MaxRequestAhead}

\* the horizons _make_prediction is called with directly
PredictHorizons == (-1)..MaxHorizon

\* a one-row indicator table whose 50-day average is 0
ZeroAverageTable ==
    <<[ts |-> TsOf(1), close |-> BasePrice, returns |-> Cell(0), MA50 |-> Cell(0),
       momentum |-> Cell(0), volatility |-> Cell(0)]>>

Init ==
    /\ \E shape \in Shapes, len \in 0..MaxLen :
          /\ hist = PriceTable(shape, len)
          /\ hist_index \in IndexKinds(shape)
    /\ pc = "loaded"
    /\ data = << >>
    /\ last = NoCall

\* backtester = PredictionBacktester(historical_data): works on a copy
Derive ==
    /\ pc = "loaded"
    /\ data' = NewBacktester(hist)
    /\ pc' = "idle"
    /\ UNCHANGED <<hist, hist_index, last>>

\* Backtest with the table cut down to the window it was asked for
BacktestKeepingSlice ==
    /\ pc = "idle"
    /\ \E start_day \in StartDays, end_day \in EndDays, horizon \in 1..MaxHorizon :
          /\ last' = [op |-> "backtest", start_day |-> start_day, end_day |-> end_day,
                      horizon |-> horizon,
                      out |-> BacktestPrediction(data, start_day, end_day, horizon)]
          /\ data' = DateSlice(data, start_day, end_day)
    /\ pc' = "returned"
    /\ UNCHANGED <<hist, hist_index>>

\* backtester.backtest_prediction(start_date, end_date, prediction_horizon)
Backtest ==
    /\ pc = "idle"
    /\ \E start_day \in StartDays, end_day \in EndDays, horizon \in 1..MaxHorizon :
          last' = [op |-> "backtest", start_day |-> start_day, end_day |-> end_day,
                   horizon |-> horizon,
                   out |-> BacktestPrediction(data, start_day, end_day, horizon)]
    /\ pc' = "returned"
    /\ UNCHANGED <<hist, hist_index, data>>

\* the same backtest_prediction call made again on the same backtester
BacktestAgain ==
    /\ pc = "returned"
    /\ last.op = "backtest"
    /\ last' = [op |-> "backtest again", start_day |-> last.start_day,
                end_day |-> last.end_day, horizon |-> last.horizon,
                out |-> BacktestPrediction(data, last.start_day, last.end_day,
                                           last.horizon),
                before |-> last.out]
    /\ UNCHANGED <<hist, hist_index, pc, data>>

\* backtester._make_prediction(table, horizon), called directly
MakePredictionCall ==
    /\ pc = "idle"
    /\ \E table \in {data, ZeroAverageTable}, horizon \in PredictHorizons :
          last' = [op |-> "make_prediction", table |-> table, horizon |-> horizon,
                   out |-> MakePrediction(table, horizon)]
    /\ pc' = "returned"
    /\ UNCHANGED <<hist, hist_index, data>>

\* df.index after get_historical_accuracy(df, days_ahead): the function assigns
\* pd.to_datetime(df.index) to the caller's table when its index is not a
\* DatetimeIndex, after the empty check and before the length check
IndexAfterAccuracy(df, index) == IF df = << >> THEN index ELSE "DatetimeIndex"

\* get_historical_accuracy(df, days_ahead), called on the caller's price table
AccuracyCall ==
    /\ pc = "idle"
    /\ \E days_ahead \in {1, MaxHorizon} :
          last' = [op |-> "accuracy", days_ahead |-> days_ahead,
                   out |-> GetHistoricalAccuracy(hist, days_ahead)]
    /\ hist_index' = IndexAfterAccuracy(hist, hist_index)
    /\ pc' = "returned"
    /\ UNCHANGED <<hist, data>>

\* generate_price_prediction(backtester.data, target_dt, current_price), as
\* predict_price calls it on a non-empty price table
Forecast ==
    /\ pc = "idle"
    /\ hist # << >>
    /\ \E now \in Clock, target_date \in TargetDates :
          last' = [op |-> "forecast", now |-> now, target_date |-> target_date,
                   rows |-> Len(data),
                   out |-> GeneratePricePrediction(data, now, target_date,
                                                   hist[Len(hist)].close * S)]
    /\ pc' = "returned"
    /\ UNCHANGED <<hist, hist_index, data>>

\* GET /predict: predict_price on the loaded price table; the endpoint builds
\* its own backtester and leaves nothing behind
PredictPriceRequest ==
    /\ pc = "idle"
    /\ \E now \in Clock, target_dt \in RequestDates :
          last' = [op |-> "predict_price", now |-> now, target_dt |-> target_dt,
                   response |-> PredictPrice(hist, now, target_dt)]
    /\ pc' = "returned"
    /\ UNCHANGED <<hist, hist_index, data>>

\* the caller takes the outcome; the backtester is ready for the next call
Return ==
    /\ pc = "returned"
    /\ last' = NoCall
    /\ pc' = "idle"
    /\ UNCHANGED <<hist, hist_index, data>>

Next ==
    \/ Derive
    \/ Backtest
    \/ BacktestAgain
    \/ MakePredictionCall
    \/ AccuracyCall
    \/ Forecast
    \/ PredictPriceRequest
    \/ Return

Spec == Init /\ [][Next]_vars

-----------------------------------------------------------------------------
(* Two /predict requests served at once.  predict_price is a plain `def`      *)
(* endpoint, which the server runs on worker threads; every object it and    *)
(* generate_price_prediction use is a local of the call.  In this            *)
(* specification each variable is a function from the request to that        *)
(* request's own value: hist[r] is its price table, data[r] its backtester's *)
(* table, last[r] its inputs and then its response.                          *)

Requests == {1, 2}

\* the tables load_prices returns to the requests, and the days they ask for
RequestShapes == {"flat", "rise", "wild"}
RequestTargets == {(Today + 1) * TicksPerDay, (Today + MaxHorizon) * TicksPerDay}

InitConcurrent ==
    /\ hist = [r \in Requests |-> << >>]
    /\ hist_index = [r \in Requests |-> "DatetimeIndex"]
    /\ pc = [r \in Requests |-> "new"]
    /\ data = [r \in Requests |-> << >>]
    /\ \E targets \in [Requests -> RequestTargets] :
          last = [r \in Requests |->
                     [op |-> "request", now |-> Today * TicksPerDay,
                      target_date |-> targets[r]]]

\* historical_data = load_prices(ticker.upper(), "6mo")
RequestLoad(r) ==
    /\ pc[r] = "new"
    /\ \E shape \in RequestShapes :
          hist' = [hist EXCEPT ![r] = PriceTable(shape, MaxLen)]
    /\ pc' = [pc EXCEPT ![r] = "loaded"]
    /\ UNCHANGED <<hist_index, data, last>>

\* RequestDerive with one backtester object shared by the requests
RequestDeriveShared(r) ==
    /\ pc[r] = "loaded"
    /\ data' = [q \in Requests |-> NewBacktester(hist[r])]
    /\ pc' = [pc EXCEPT ![r] = "idle"]
    /\ UNCHANGED <<hist, hist_index, last>>

\* backtester = PredictionBacktester(historical_data); processed_data = backtester.data
RequestDerive(r) ==
    /\ pc[r] = "loaded"
    /\ data' = [data EXCEPT ![r] = NewBacktester(hist[r])]
    /\ pc' = [pc EXCEPT ![r] = "idle"]
    /\ UNCHANGED <<hist, hist_index, last>>

\* prediction = generate_price_prediction(processed_data, target_dt, current_price)
RequestForecast(r) ==
    /\ pc[r] = "idle"
    /\ last' = [last EXCEPT ![r] =
                   [op |-> "forecast", now |-> last[r].now,
                    target_date |-> last[r].target_date,
                    out |-> GeneratePricePrediction(data[r], last[r].now,
                                last[r].target_date,
                                hist[r][Len(hist[r])].close * S)]]
    /\ pc' = [pc EXCEPT ![r] = "returned"]
    /\ UNCHANGED <<hist, hist_index, data>>

NextConcurrent ==
    \E r \in Requests : RequestLoad(r) \/ RequestDerive(r) \/ RequestForecast(r)

SpecConcurrent == InitConcurrent /\ [][NextConcurrent]_vars

-----------------------------------------------------------------------------
(* Indicator derivation: claims C1 and C9 *)

\* the backtester's table is the price table without its first `dropped` rows,
\* in order, every kept row with all four indicators defined
DerivationDrops(dropped) ==
    /\ Len(data) = Max(0, Len(hist) - dropped)
    /\ \A k \in 1..Len(data) :
          /\ k + dropped <= Len(hist)
          /\ data[k].ts = hist[k + dropped].ts
          /\ data[k].close = hist[k + dropped].close
          /\ RowDefined(data[k])

\* C1 as stated: for a price series of length L, derivation keeps exactly
\* max(0, L - 50) rows: it discards the first 50 rows and keeps the rest in
\* order, each with returns, MA50, momentum and volatility defined.
C1_DropsFirst50 == pc # "loaded" => DerivationDrops(MAWindow)

\* C1 amended: derivation keeps exactly max(0, L - 49) rows: it discards the
\* first 49 rows (the 50-row mean is first defined on row 50) and keeps the rest
\* in order, each with returns, MA50, momentum and volatility defined.
C1_DropsFirst49 == pc # "loaded" => DerivationDrops(MAWindow - 1)

\* a 50-row price table has been derived into a one-row indicator table
C1_Witness == pc = "idle" /\ Len(hist) = MAWindow /\ Len(data) = 1

\* C9 as stated: derivation fails when fewer than 51 priced days are supplied;
\* it never returns a table (empty or partial) for such an input.
C9_ShortInputRejected == Len(hist) < MAWindow + 1 => pc = "loaded"

-----------------------------------------------------------------------------
(* The walk-forward backtest: claims C2, C3, C8 and C10 *)

BacktestReturned == last.op = "backtest" /\ last.out.err = ""

\* the price table with every close dated after `day` revised (raised by a tenth
\* of the base price)
Revise(df, day) ==
    [t \in 1..Len(df) |->
        IF DayOf(df[t].ts) > day
        THEN [df[t] EXCEPT !.close = @ + BasePrice \div 10]
        ELSE df[t]]

\* the day after which the closes are revised: the date of row MaxLen - 60
CutDay == DayOf(TsOf(MaxLen - EvalWindow))

\* C2: every scored prediction is computed from the rows of the indicator table
\* dated on or before its own date, counted from the start of the table (not
\* from start_date); and the predictions scored up to a day are the same when
\* the closes dated after that day are revised.
C2_NoLookAhead ==
    BacktestReturned =>
        LET out == last.out
            n == out.n_predictions
        IN  /\ \A i \in 1..n :
                 LET seen == {k \in 1..Len(data) : data[k].ts <= out.test_data[i].ts}
                 IN  /\ out.current_len[i] = Cardinality(seen)
                     /\ seen = 1..Cardinality(seen)
                     /\ data[Cardinality(seen)].ts = out.test_data[i].ts
            /\ (n >= 1 /\ DayOf(out.test_data[1].ts) <= CutDay) =>
                 LET revised == BacktestPrediction(NewBacktester(Revise(hist, CutDay)),
                                    last.start_day, last.end_day, last.horizon)
                 IN  /\ revised.err = ""
                     /\ \A i \in 1..n :
                           DayOf(out.test_data[i].ts) <= CutDay =>
                               /\ i <= revised.n_predictions
                               /\ revised.predictions[i] = out.predictions[i]

\* a backtest scored predictions up to the cut day from a window that starts
\* after the first table row, on a table with rows after the cut day, which the
\* revision changes
C2_Witness ==
    /\ BacktestReturned
    /\ last.out.n_predictions >= 2
    /\ DayOf(last.out.test_data[2].ts) <= CutDay
    /\ last.out.current_len[1] > 1
    /\ DayOf(data[Len(data)].ts) > CutDay
    /\ NewBacktester(Revise(hist, CutDay)) # data

\* C3: a backtest whose window holds no more rows than the horizon, the empty
\* window included, does not raise: it returns a report with n_predictions = 0
\* and mape, rmse and directional accuracy undefined (NaN).
C3_DegenerateWindowReturns ==
    (/\ last.op = "backtest"
     /\ Len(DateSlice(data, last.start_day, last.end_day)) <= last.horizon) =>
        /\ last.out.err = ""
        /\ last.out.n_predictions = 0
        /\ IsNaN(last.out.mape)
        /\ IsNaN(last.out.rmse)
        /\ IsNaN(last.out.directional_accuracy)

\* the scored indices whose one-step realized move has the sign of the predicted
\* horizon-step move
DirectionHits(out) ==
    {i \in 1..out.n_predictions :
        Sign(out.test_data[i + 1].close - out.test_data[i].close)
            = Sign(out.predictions[i] - out.test_data[i].close * S)}

\* C8 as stated: the directional accuracy of a backtest is the fraction of the
\* scored indices i with sign(close[i+1] - close[i]) = sign(prediction[i] - close[i]).
C8_DirectionalAccuracyIsFraction ==
    (BacktestReturned /\ last.out.n_predictions >= 1) =>
        last.out.directional_accuracy
            = Cell(MulDiv(Cardinality(DirectionHits(last.out)), S, last.out.n_predictions))

\* C8 amended: the directional accuracy of a backtest is 100 times that
\* fraction: the percentage of the scored indices i with
\* sign(close[i+1] - close[i]) = sign(prediction[i] - close[i]).
C8_DirectionalAccuracyIsPercentage ==
    (BacktestReturned /\ last.out.n_predictions >= 1) =>
        last.out.directional_accuracy
            = Cell(MulDiv(100 * Cardinality(DirectionHits(last.out)), S,
                          last.out.n_predictions))

\* a backtest scored some indices whose directions agree and some whose
\* directions differ
C8_Witness ==
    /\ BacktestReturned
    /\ DirectionHits(last.out) # {}
    /\ DirectionHits(last.out) # 1..last.out.n_predictions

\* C10: a prediction depends only on the last row of the table it is given and
\* on the horizon: each scored prediction of a backtest, made from the table up
\* to its day, is the prediction made from that table's last row alone.
C10_LastRowOnly ==
    BacktestReturned =>
        \A i \in 1..last.out.n_predictions :
            LET asof == SubSeq(data, 1, last.out.current_len[i])
            IN  Cell(last.out.predictions[i])
                    = MakePrediction(<<asof[Len(asof)]>>, last.horizon).val

\* a backtest scored a prediction made from a table of several rows whose first
\* and last rows differ in every input of the formula
C10_Witness ==
    /\ BacktestReturned
    /\ \E i \in 1..last.out.n_predictions :
          LET m == last.out.current_len[i]
          IN  /\ m >= 2
              /\ data[1].close # data[m].close
              /\ data[1].momentum # data[m].momentum
              /\ data[1].MA50 # data[m].MA50
              /\ data[1].volatility # data[m].volatility

-----------------------------------------------------------------------------
(* The forecast: claims C4, C5, C6 and C7 *)

ForecastReturned == last.op = "forecast" /\ last.out.err = ""

\* C4: a forecast with a valid horizon on an indicator table of fewer than
\* 60 + horizon rows, however short, fails with the insufficient-data error.
C4_ShortTableInsufficientData ==
    (/\ last.op = "forecast"
     /\ DaysBetween(last.now, last.target_date) >= 1
     /\ last.rows < EvalWindow + DaysBetween(last.now, last.target_date)) =>
        last.out.err = "InsufficientData"

\* C5: the probability of a returned forecast lies in [0, 95].
C5_ProbabilityInRange ==
    ForecastReturned =>
        /\ 0 <= last.out.probability_within_5_percent
        /\ last.out.probability_within_5_percent <= ProbCap * S

\* C6: in a returned forecast
\* ci95.lo <= ci80.lo <= median_prediction <= ci80.hi <= ci95.hi.
C6_IntervalsNested ==
    ForecastReturned =>
        /\ last.out.ci95[1] <= last.out.ci80[1]
        /\ last.out.ci80[1] <= last.out.median_prediction
        /\ last.out.median_prediction <= last.out.ci80[2]
        /\ last.out.ci80[2] <= last.out.ci95[2]

\* C7: a forecast is rejected for its target date exactly when the target date
\* is not strictly after now; a later target date is forecast with the horizon
\* daysBetween(now, target) >= 1.
C7_RejectsExactlyPastTargets ==
    last.op = "forecast" =>
        /\ last.out.err = "TargetDate" <=> last.target_date <= last.now
        /\ ForecastReturned =>
              /\ last.out.days_until_target = DaysBetween(last.now, last.target_date)
              /\ last.out.days_until_target >= 1

-----------------------------------------------------------------------------
(* The point prediction called directly: claims C11 and C12 *)

\* C11: _make_prediction fails with the invalid-horizon error for every
\* horizon <= 0; it never returns a price for such a horizon.
C11_NonPositiveHorizonRejected ==
    (last.op = "make_prediction" /\ last.horizon <= 0 /\ last.table # << >>) =>
        last.out.err = "InvalidHorizon"

\* C12: _make_prediction fails with a data-quality (division by zero) error
\* whenever the last row's ma50 is 0; it never returns a NaN or infinite price.
C12_ZeroAverageRejected ==
    (/\ last.op = "make_prediction"
     /\ last.horizon >= 1
     /\ last.table # << >>
     /\ last.table[Len(last.table)].MA50 = Cell(0)) =>
        last.out.err = "DataQuality"

-----------------------------------------------------------------------------
(* The end-to-end scenarios: claims C13 and C14 *)

\* a forecast has returned on the 120-day series of the given shape
ScenarioForecast(shape) ==
    /\ ForecastReturned
    /\ hist = PriceTable(shape, 120)

\* C13 as stated: on the series rising 1% a day for 120 days the last indicator
\* row has momentum > 0 and the forecast's price is above the current price,
\* for every horizon the forecast accepts.
C13_RisingForecastAbove ==
    ScenarioForecast("rise") =>
        /\ Val(data[Len(data)].momentum) > 0
        /\ last.out.median_prediction > last.out.current_price

\* C13 amended: on that series the last indicator row has momentum > 0; the
\* forecast's price is above the current price for the horizons 1..3 and below
\* it for every longer horizon the forecast accepts (4..11).
C13_RisingForecastAboveUpTo3 ==
    ScenarioForecast("rise") =>
        /\ Val(data[Len(data)].momentum) > 0
        /\ last.out.days_until_target <= 3 =>
              last.out.median_prediction > last.out.current_price
        /\ last.out.days_until_target >= 4 =>
              /\ last.out.days_until_target <= 11
              /\ last.out.median_prediction < last.out.current_price

\* a forecast four days ahead has returned on the rising 120-day series
C13_Witness == ScenarioForecast("rise") /\ last.out.days_until_target = 4

\* C14: on the flat 120-day series (every close 100) momentum, the distance to
\* the 50-day average and volatility are 0, the forecast's price is the current
\* price exactly and both intervals are the single point [price, price], for
\* every horizon the forecast accepts.
C14_FlatForecastExact ==
    ScenarioForecast("flat") =>
        LET row == data[Len(data)]
        IN  /\ row.momentum = Cell(0)
            /\ Val(row.MA50) = row.close * S
            /\ row.volatility = Cell(0)
            /\ last.out.volatility = 0
            /\ last.out.current_price = BasePrice * S
            /\ last.out.median_prediction = last.out.current_price
            /\ last.out.ci80 = <<last.out.median_prediction, last.out.median_prediction>>
            /\ last.out.ci95 = last.out.ci80

\* a forecast eleven days ahead, the longest accepted, has returned on the flat
\* 120-day series
C14_Witness == ScenarioForecast("flat") /\ last.out.days_until_target = 11

-----------------------------------------------------------------------------
(* Repeated backtests: claim C15 *)

\* two outcomes of backtest_prediction agree: both raise the same error, or both
\* return the same mape, rmse, directional accuracy and number of predictions
SameReport(a, b) ==
    /\ a.err = b.err
    /\ a.err = "" =>
          /\ a.mape = b.mape
          /\ a.rmse = b.rmse
          /\ a.directional_accuracy = b.directional_accuracy
          /\ a.n_predictions = b.n_predictions

\* C15: a backtest call leaves the backtester's indicator table as it was, and
\* the same call made again on the backtester, after any calls made before,
\* yields the same mape, rmse, directional accuracy and number of predictions.
C15_BacktestIdempotent ==
    [][(pc' = "returned" /\ last'.op \in {"backtest", "backtest again"}) =>
          /\ data' = data
          /\ last'.op = "backtest again" => SameReport(last'.out, last'.before)]_vars

\* a backtest that scored predictions has been made a second time
C15_Witness ==
    /\ last.op = "backtest again"
    /\ last.out.err = ""
    /\ last.out.n_predictions >= 1
    /\ last.before.n_predictions >= 1

-----------------------------------------------------------------------------
(* The caller's price table: claim C16 *)

\* C16: no call of the core changes the caller's price table: after derivation,
\* a backtest, a forecast or an accuracy report returns or fails, the table has
\* the rows, the values and the index it had before the call.
C16_CallerTableUntouched ==
    [][hist' = hist /\ hist_index' = hist_index]_vars

-----------------------------------------------------------------------------
(* Concurrent requests: claim C17 *)

\* the response a request gets when it is served alone
ServedAlone(r) ==
    GeneratePricePrediction(NewBacktester(hist[r]), last[r].now, last[r].target_date,
                            hist[r][Len(hist[r])].close * S)

\* C17: however the steps of two requests are interleaved, each request gets the
\* response it would get served alone.
C17_RequestsIndependent ==
    \A r \in Requests : pc[r] = "returned" => last[r].out = ServedAlone(r)

\* both requests have been answered, on different tables and for different days
C17_Witness ==
    /\ \A r \in Requests : pc[r] = "returned" /\ last[r].out.err = ""
    /\ hist[1] # hist[2]
    /\ last[1].target_date # last[2].target_date
    /\ last[1].out # last[2].out

-----------------------------------------------------------------------------
(* The evaluation window and the scored pairs: claims C18 and C19 *)

\* C18: a forecast that succeeds on an indicator table of at least 60 + horizon
\* rows backtests the last 60 + horizon rows of that table: the test slice has
\* 60 + horizon rows and the report 60 predictions.
C18_FullEvaluationWindow ==
    (ForecastReturned /\ last.rows >= EvalWindow + last.out.days_until_target) =>
        /\ Len(last.out.historical_accuracy.test_data)
               = EvalWindow + last.out.days_until_target
        /\ last.out.historical_accuracy.n_predictions = EvalWindow

\* the close the caller's price table holds at a timestamp
CloseAt(ts) == hist[CHOOSE k \in 1..Len(hist) : hist[k].ts = ts].close

\* C19: a backtest whose test slice is longer than the horizon scores one
\* prediction for each index i of the slice that has a row horizon places
\* later, and pairs it with the close of that row: n_predictions =
\* len(test slice) - horizon.
C19_OnePredictionPerIndex ==
    (/\ last.op = "backtest"
     /\ Len(DateSlice(data, last.start_day, last.end_day)) > last.horizon) =>
        LET slice == DateSlice(data, last.start_day, last.end_day)
            out == last.out
        IN  /\ out.err = ""
            /\ Len(out.test_data) = Len(slice)
            /\ out.n_predictions = Len(slice) - last.horizon
            /\ Len(out.predictions) = out.n_predictions
            /\ Len(out.actuals) = out.n_predictions
            /\ \A i \in 1..out.n_predictions :
                  /\ out.test_data[i].ts = slice[i].ts
                  /\ out.actuals[i] = CloseAt(slice[i + last.horizon].ts) * S

\* a backtest with a horizon of several days scored indices whose close on the
\* next day differs from the close horizon days later
C19_Witness ==
    /\ BacktestReturned
    /\ last.horizon >= 2
    /\ last.out.n_predictions >= 2
    /\ \E i \in 1..last.out.n_predictions :
          last.out.test_data[i + 1].close # last.out.test_data[i + last.horizon].close

-----------------------------------------------------------------------------
(* The /predict endpoint: claim C20 *)

\* C20: a /predict request whose target date is not after the current time is
\* answered with HTTP 400, never with HTTP 500.
C20_PastTargetIs400 ==
    (last.op = "predict_price" /\ last.target_dt <= last.now) =>
        last.response.status = 400

=============================================================================
